---- MODULE Spec2Model ----
(***************************************************************************)
(* A model of the B-tree of durid-ah/btree_rust (src/lib/lib.rs and the    *)
(* node module).  The Rc<RefCell<Node>> graph is an arena: `nodes` is a     *)
(* sequence of node records and a NodeRef is a position in it.  Indices    *)
(* into keys and children are 0-based as in the source; the sequences of   *)
(* TLA+ are 1-based, so keys[i] of the source is keys[i + 1] here.         *)
(* A panic (index out of bounds, unwrap of None, RefCell borrow error,     *)
(* the explicit panic! of find_key_index) or a loop that never ends is a   *)
(* fault: the call does not return and the process stops.                  *)
(***************************************************************************)
EXTENDS Integers, Sequences, FiniteSets, TLC

\* Bounds of the model.
MaxKey == 8
MaxOrder == 5
MaxSize == 8
MaxDeletes == 1
MaxFill == 17

Keys == 1..MaxKey
Orders == 3..MaxOrder

\* nodes, root, order: the tree.  present: the keys the calls that returned
\* Ok put in and did not take out.  fault: what stopped the process.
\* deletes: the delete calls that returned Ok.  ret: what the last call on a
\* single node returned.
VARIABLES nodes, root, order, present, fault, deletes, ret

vars == <<nodes, root, order, present, fault, deletes, ret>>

\* Weak::new() / a Weak whose target was dropped: upgrade() gives None.
NoNode == 0
\* index_in_parent: Option::None
NoIndex == -1

\* What keeps a call from returning.
Faults == {"PanicIndexOutOfBounds", "PanicUnwrapNone", "PanicUnableToFind",
           "PanicSubtractOverflow", "PanicAlreadyBorrowed", "Hang"}

\* No call has failed to return.
NoFault == "None"

\* No call on a single node has returned anything yet.
NoRet == [op |-> "", val |-> <<>>]

\* Node::new: no parent, no index, no keys, no children.
NewNode == [parent |-> NoNode, index_in_parent |-> NoIndex,
            keys |-> <<>>, children |-> <<>>]

\* min_keys: (order as f32 / 2_f32).ceil() as usize - 1
min_keys(ord) == ((ord + 1) \div 2) - 1

\* new_node_ref: the new node gets the next free position of the arena.
new_node_ref(ns) == Append(ns, NewNode)

calculate_mid(start, end) == ((end - start) \div 2) + start

Swap(s, i, j) == [s EXCEPT ![i] = s[j], ![j] = s[i]]

\* The shift loop of add_key; new_key_idx and current_idx are 0-based.
RECURSIVE add_key_loop(_, _, _)
add_key_loop(keys, new_key_idx, current_idx) ==
    IF keys[new_key_idx + 1] < keys[current_idx + 1]
    THEN LET swapped == Swap(keys, new_key_idx + 1, current_idx + 1)
         IN IF current_idx > 0
            THEN add_key_loop(swapped, current_idx, current_idx - 1)
            ELSE add_key_loop(swapped, new_key_idx, current_idx)
    ELSE keys

\* add_key that puts the key in front of the others.
add_key_front(keys, key) == <<key>> \o keys

\* add_key without the shift loop: the key stays where it was pushed.
add_key_push_only(keys, key) == Append(keys, key)

add_key(keys, key) ==
    LET pushed == Append(keys, key)
        new_key_idx == Len(pushed) - 1
    IN IF new_key_idx = 0 THEN pushed
       ELSE add_key_loop(pushed, new_key_idx, new_key_idx - 1)

Found(i) == [status |-> "Found", index |-> i]
NotFound(i) == [status |-> "NotFound", index |-> i]
SearchPanic == [status |-> "PanicUnableToFind", index |-> 0]

\* The binary search loop of find_key_index.
RECURSIVE find_key_index_loop(_, _, _, _)
find_key_index_loop(keys, key, start, end) ==
    IF end < start THEN SearchPanic
    ELSE LET mid_idx == calculate_mid(start, end)
             key_length == Len(keys)
         IN IF keys[mid_idx + 1] = key THEN Found(mid_idx)
            ELSE IF mid_idx = 0 /\ keys[mid_idx + 1] > key THEN NotFound(mid_idx)
            ELSE IF mid_idx = key_length - 1 /\ keys[mid_idx + 1] < key
                 THEN NotFound(mid_idx + 1)
            ELSE IF keys[mid_idx + 1] > key /\ keys[mid_idx] < key
                 THEN NotFound(mid_idx)
            ELSE IF keys[mid_idx + 1] > key
                 THEN find_key_index_loop(keys, key, start, mid_idx - 1)
                 ELSE find_key_index_loop(keys, key, mid_idx + 1, end)

\* find_key_index that starts its search at index 1.
find_key_index_from_one(keys, key) ==
    IF keys = <<>> THEN NotFound(0)
    ELSE find_key_index_loop(keys, key, 1, Len(keys) - 1)

find_key_index(keys, key) ==
    IF keys = <<>> THEN NotFound(0)
    ELSE find_key_index_loop(keys, key, 0, Len(keys) - 1)

\* is_key_overflowing that lets a node reach order keys.
is_key_overflowing_late(node, ord) == Len(node.keys) > ord

is_key_overflowing(node, ord) == Len(node.keys) > ord - 1

is_root(node) == node.parent = NoNode

is_leaf(node) == node.children = <<>>

has_min_key_count(node, ord) ==
    IF is_root(node) THEN Len(node.keys) = 1
    ELSE Len(node.keys) = min_keys(ord)

has_more_than_min_keys(node, ord) ==
    IF is_root(node) THEN Len(node.keys) > 1
    ELSE Len(node.keys) > min_keys(ord)

\* try_clone_child that hands out the first child whatever the index.
try_clone_child_first(node, index) ==
    IF node.children = <<>> \/ index < 0 THEN [fault |-> "", child |-> NoNode]
    ELSE [fault |-> "", child |-> node.children[1]]

\* try_clone_child: None (NoNode) for no children or a negative index,
\* otherwise children[index], which panics when index is past the end.
try_clone_child(node, index) ==
    IF node.children = <<>> \/ index < 0 THEN [fault |-> "", child |-> NoNode]
    ELSE IF index >= Len(node.children)
         THEN [fault |-> "PanicIndexOutOfBounds", child |-> NoNode]
         ELSE [fault |-> "", child |-> node.children[index + 1]]

\* The descent of BTree::find from `node`.
RECURSIVE find_loop(_, _, _)
find_loop(ns, node, value) ==
    LET search_result == find_key_index(ns[node].keys, value)
    IN IF search_result.status = "PanicUnableToFind"
       THEN [status |-> "Panic", fault |-> "PanicUnableToFind", index |-> 0, node |-> node]
       ELSE IF search_result.status = "Found"
       THEN [status |-> "Found", fault |-> "", index |-> search_result.index, node |-> node]
       ELSE LET node_option == try_clone_child(ns[node], search_result.index)
            IN IF node_option.fault # ""
               THEN [status |-> "Panic", fault |-> node_option.fault, index |-> 0, node |-> node]
               ELSE IF node_option.child = NoNode
               THEN [status |-> "NotFound", fault |-> "",
                     index |-> search_result.index, node |-> node]
               ELSE find_loop(ns, node_option.child, value)

find(ns, rt, value) == find_loop(ns, rt, value)

\* update_children_indexes of node p.
update_children_indexes(ns, p) ==
    [i \in 1..Len(ns) |->
        IF \E j \in 1..Len(ns[p].children) : ns[p].children[j] = i
        THEN [ns[i] EXCEPT !.index_in_parent =
                 (CHOOSE j \in 1..Len(ns[p].children) : ns[p].children[j] = i) - 1]
        ELSE ns[i]]

\* The ordering loop of add_child on the children of one node.  get_max_key
\* of a child without keys underflows keys.len() - 1, get_min_key of one
\* indexes keys[0].  When current_idx is 0 the indices stay where they are
\* after the swap, so two children that do not compare as ordered either way
\* are swapped for ever.
RECURSIVE add_child_loop(_, _, _, _)
add_child_loop(ns, children, new_child_idx, current_idx) ==
    LET current_child == ns[children[current_idx + 1]]
        new_child == ns[children[new_child_idx + 1]]
    IN IF current_child.keys = <<>>
       THEN [fault |-> "PanicSubtractOverflow", children |-> children]
       ELSE IF new_child.keys = <<>>
       THEN [fault |-> "PanicIndexOutOfBounds", children |-> children]
       ELSE IF new_child.keys[1] > current_child.keys[Len(current_child.keys)]
       THEN [fault |-> "", children |-> children]
       ELSE LET swapped == Swap(children, new_child_idx + 1, current_idx + 1)
            IN IF current_idx > 0
               THEN add_child_loop(ns, swapped, current_idx, current_idx - 1)
               ELSE IF current_child.keys[1] > new_child.keys[Len(new_child.keys)]
                    THEN [fault |-> "", children |-> swapped]
                    ELSE [fault |-> "Hang", children |-> swapped]

\* The end of add_child: the children as the loop left them, renumbered by
\* update_children_indexes.
add_child_ordered(ns1, p, l) ==
    IF l.fault # "" THEN [fault |-> l.fault, nodes |-> ns1]
    ELSE [fault |-> "",
          nodes |-> update_children_indexes([ns1 EXCEPT ![p].children = l.children], p)]

\* add_child that leaves the new child where it was pushed.
add_child_pushes(ns, p, child) ==
    [fault |-> "",
     nodes |-> [ns EXCEPT ![p].children = Append(@, child),
                          ![child].index_in_parent = Len(ns[p].children)]]

add_child(ns, p, child) ==
    LET pushed == Append(ns[p].children, child)
        new_child_idx == Len(pushed) - 1
        ns1 == [ns EXCEPT ![p].children = pushed,
                          ![child].index_in_parent = new_child_idx]
    IN IF new_child_idx = 0 THEN [fault |-> "", nodes |-> ns1]
       ELSE add_child_ordered(ns1, p,
                add_child_loop(ns1, pushed, new_child_idx, new_child_idx - 1))

\* The index_in_parent split_node gives to the child that ends at 0-based
\* position pos of the right node's nmoved children: the children are
\* popped from the back and numbered in the order they are popped.
split_child_index(pos, nmoved) == nmoved - 1 - pos

\* split_node that moves the keys but leaves every child with the node.
split_node_keeps_children(ns, self) ==
    LET node == ns[self]
        key_len == Len(node.keys)
        mid_key_idx == key_len \div 2
        ns1 == new_node_ref(ns)
        right_node == Len(ns1)
    IN [nodes |-> [ns1 EXCEPT
                     ![self].keys = SubSeq(node.keys, 1, mid_key_idx),
                     ![right_node].keys = SubSeq(node.keys, mid_key_idx + 2, key_len),
                     ![right_node].parent = node.parent],
        mid_key |-> node.keys[mid_key_idx + 1],
        right_node |-> right_node]

\* split_node with the middle taken at (key_len - 1) / 2.
split_node_low_mid(ns, self) ==
    LET node == ns[self]
        key_len == Len(node.keys)
        child_len == Len(node.children)
        mid_key_idx == (key_len - 1) \div 2
        ns1 == new_node_ref(ns)
        right_node == Len(ns1)
        right_children == SubSeq(node.children, mid_key_idx + 2, child_len)
    IN [nodes |-> [i \in 1..Len(ns1) |->
                     IF i = self
                     THEN [node EXCEPT !.keys = SubSeq(node.keys, 1, mid_key_idx),
                                       !.children = SubSeq(node.children, 1,
                                                            child_len - Len(right_children))]
                     ELSE IF i = right_node
                     THEN [ns1[i] EXCEPT !.keys = SubSeq(node.keys, mid_key_idx + 2, key_len),
                                         !.children = right_children,
                                         !.parent = node.parent]
                     ELSE IF \E p \in 1..Len(right_children) : right_children[p] = i
                     THEN [ns1[i] EXCEPT !.parent = right_node]
                     ELSE ns1[i]],
        mid_key |-> node.keys[mid_key_idx + 1],
        right_node |-> right_node]

\* split_node with the middle taken at key_len / 2 + 1.
split_node_high_mid(ns, self) ==
    LET node == ns[self]
        key_len == Len(node.keys)
        child_len == Len(node.children)
        mid_key_idx == (key_len \div 2) + 1
        ns1 == new_node_ref(ns)
        right_node == Len(ns1)
        right_keys == SubSeq(node.keys, mid_key_idx + 2, key_len)
        right_children == SubSeq(node.children, mid_key_idx + 2, child_len)
        nmoved == Len(right_children)
        mid_key == node.keys[mid_key_idx + 1]
        ns2 == [i \in 1..Len(ns1) |->
                  IF i = self
                  THEN [node EXCEPT !.keys = SubSeq(node.keys, 1, mid_key_idx),
                                    !.children = SubSeq(node.children, 1, child_len - nmoved)]
                  ELSE IF i = right_node
                  THEN [ns1[i] EXCEPT !.keys = right_keys,
                                      !.children = right_children,
                                      !.parent = node.parent]
                  ELSE IF \E p \in 1..nmoved : right_children[p] = i
                  THEN [ns1[i] EXCEPT
                          !.parent = right_node,
                          !.index_in_parent = split_child_index(
                              (CHOOSE p \in 1..nmoved : right_children[p] = i) - 1, nmoved)]
                  ELSE ns1[i]]
    IN [nodes |-> ns2, mid_key |-> mid_key, right_node |-> right_node]

\* split_node: the node keeps keys[..mid], the new right node gets
\* keys[mid+1..] and children[mid+1..]; returns the mid key and the node.
split_node(ns, self) ==
    LET node == ns[self]
        key_len == Len(node.keys)
        child_len == Len(node.children)
        mid_key_idx == key_len \div 2
        ns1 == new_node_ref(ns)
        right_node == Len(ns1)
        right_keys == SubSeq(node.keys, mid_key_idx + 2, key_len)
        right_children == SubSeq(node.children, mid_key_idx + 2, child_len)
        nmoved == Len(right_children)
        mid_key == node.keys[mid_key_idx + 1]
        ns2 == [i \in 1..Len(ns1) |->
                  IF i = self
                  THEN [node EXCEPT !.keys = SubSeq(node.keys, 1, mid_key_idx),
                                    !.children = SubSeq(node.children, 1, child_len - nmoved)]
                  ELSE IF i = right_node
                  THEN [ns1[i] EXCEPT !.keys = right_keys,
                                      !.children = right_children,
                                      !.parent = node.parent]
                  ELSE IF \E p \in 1..nmoved : right_children[p] = i
                  THEN [ns1[i] EXCEPT
                          !.parent = right_node,
                          !.index_in_parent = split_child_index(
                              (CHOOSE p \in 1..nmoved : right_children[p] = i) - 1, nmoved)]
                  ELSE ns1[i]]
    IN [nodes |-> ns2, mid_key |-> mid_key, right_node |-> right_node]

\* BTree::split_if_full: split the node while it overflows, one level up
\* per iteration; a split root gets a new parent that becomes the root.
\* split_if_full is the loop test and the call of split_node,
\* split_set_parent the choice of the parent and the two parent links with
\* the key pushed up, split_add_left / split_add_right the add_child calls
\* and split_next the step to the parent, which ends the body of the loop;
\* split_body is one pass through the body and split_again the return to
\* the loop test.
split_next(right, rt, ord, parent) ==
    [fault |-> right.fault, nodes |-> right.nodes, root |-> rt, node_ref |-> parent]

split_add_right(left, rt, ord, parent, right_node) ==
    IF left.fault # ""
    THEN [fault |-> left.fault, nodes |-> left.nodes, root |-> rt, node_ref |-> parent]
    ELSE split_next(add_child(left.nodes, parent, right_node), rt, ord, parent)

split_add_left(ns, rt, ord, node_ref, parent, right_node, insert_left) ==
    split_add_right(IF insert_left THEN add_child(ns, parent, node_ref)
                    ELSE [fault |-> "", nodes |-> ns],
                    rt, ord, parent, right_node)

\* split_set_parent that sets the parent of the right node only.
split_set_parent_right_only(sp, rt, ord, node_ref) ==
    LET parent_option == sp.nodes[node_ref].parent
        insert_left == parent_option = NoNode
        ns1 == IF insert_left THEN new_node_ref(sp.nodes) ELSE sp.nodes
        parent == IF insert_left THEN Len(sp.nodes) + 1 ELSE parent_option
        ns2 == [ns1 EXCEPT ![sp.right_node].parent = parent,
                           ![parent].keys = add_key(@, sp.mid_key)]
    IN split_add_left(ns2, IF insert_left THEN parent ELSE rt, ord,
                      node_ref, parent, sp.right_node, insert_left)

\* split_set_parent that leaves the tree's root reference where it was.
split_set_parent_keeps_root(sp, rt, ord, node_ref) ==
    LET parent_option == sp.nodes[node_ref].parent
        insert_left == parent_option = NoNode
        ns1 == IF insert_left THEN new_node_ref(sp.nodes) ELSE sp.nodes
        parent == IF insert_left THEN Len(sp.nodes) + 1 ELSE parent_option
        ns2 == [ns1 EXCEPT ![sp.right_node].parent = parent,
                           ![node_ref].parent = parent,
                           ![parent].keys = add_key(@, sp.mid_key)]
    IN split_add_left(ns2, rt, ord, node_ref, parent, sp.right_node, insert_left)

split_set_parent(sp, rt, ord, node_ref) ==
    LET parent_option == sp.nodes[node_ref].parent
        insert_left == parent_option = NoNode
        ns1 == IF insert_left THEN new_node_ref(sp.nodes) ELSE sp.nodes
        parent == IF insert_left THEN Len(sp.nodes) + 1 ELSE parent_option
        ns2 == [ns1 EXCEPT ![sp.right_node].parent = parent,
                           ![node_ref].parent = parent,
                           ![parent].keys = add_key(@, sp.mid_key)]
    IN split_add_left(ns2, IF insert_left THEN parent ELSE rt, ord,
                      node_ref, parent, sp.right_node, insert_left)

\* The loop body without its last statement: node_ref stays where it was.
split_body_stays(ns, rt, ord, node_ref) ==
    [split_set_parent(split_node(ns, node_ref), rt, ord, node_ref)
        EXCEPT !.node_ref = node_ref]

split_body(ns, rt, ord, node_ref) ==
    split_set_parent(split_node(ns, node_ref), rt, ord, node_ref)

RECURSIVE split_if_full(_, _, _, _)

split_again(body, ord) ==
    IF body.fault # ""
    THEN [fault |-> body.fault, nodes |-> body.nodes, root |-> body.root]
    ELSE split_if_full(body.nodes, body.root, ord, body.node_ref)

split_if_full(ns, rt, ord, node_ref) ==
    IF ~is_key_overflowing(ns[node_ref], ord)
    THEN [fault |-> "", nodes |-> ns, root |-> rt]
    ELSE split_again(split_body(ns, rt, ord, node_ref), ord)

find_insert_node(ns, rt, value) ==
    LET f == find(ns, rt, value)
    IN IF f.status = "Found" THEN [f EXCEPT !.status = "ValueAlreadyExists"]
       ELSE f

\* What BTree::add returns once split_if_full is through.
add_done(ns, rt, s) ==
    IF s.fault # "" THEN [nodes |-> ns, root |-> rt, result |-> s.fault]
    ELSE [nodes |-> s.nodes, root |-> s.root, result |-> "Ok"]

\* BTree::add that puts the key in the node the search ended at before it
\* looks at what the search said.
add_to_node_writes_first(ns, rt, ord, value, node_res) ==
    IF node_res.status = "Panic"
    THEN [nodes |-> ns, root |-> rt, result |-> node_res.fault]
    ELSE IF node_res.status = "ValueAlreadyExists"
    THEN [nodes |-> [ns EXCEPT ![node_res.node].keys = add_key(@, value)],
          root |-> rt, result |-> "ValueAlreadyExists"]
    ELSE add_done(ns, rt,
             split_if_full([ns EXCEPT ![node_res.node].keys = add_key(@, value)],
                           rt, ord, node_res.node))

\* BTree::add after find_insert_node.
add_to_node(ns, rt, ord, value, node_res) ==
    IF node_res.status = "Panic"
    THEN [nodes |-> ns, root |-> rt, result |-> node_res.fault]
    ELSE IF node_res.status = "ValueAlreadyExists"
    THEN [nodes |-> ns, root |-> rt, result |-> "ValueAlreadyExists"]
    ELSE add_done(ns, rt,
             split_if_full([ns EXCEPT ![node_res.node].keys = add_key(@, value)],
                           rt, ord, node_res.node))

\* BTree::add.  The outcome is the arena, the root and what the call
\* returned (or the fault that kept it from returning).
add(ns, rt, ord, value) ==
    add_to_node(ns, rt, ord, value, find_insert_node(ns, rt, value))

\* Vec::remove(index), 0-based; the caller checks index < len.
RemoveAt(s, index) == SubSeq(s, 1, index) \o SubSeq(s, index + 2, Len(s))

\* try_clone_left_sibling: the child of the parent just before this node,
\* or none when the node is the first child.
try_clone_left_sibling(ns, node) ==
    LET n == ns[node]
    IN IF n.parent = NoNode \/ n.index_in_parent = NoIndex
          \/ n.index_in_parent - 1 < 0
          \/ n.index_in_parent - 1 >= Len(ns[n.parent].children)
       THEN NoNode
       ELSE ns[n.parent].children[n.index_in_parent]

\* try_clone_right_sibling: the child of the parent just after this node,
\* or none when the node is the last child.
try_clone_right_sibling(ns, node) ==
    LET n == ns[node]
    IN IF n.parent = NoNode \/ n.index_in_parent = NoIndex
          \/ n.index_in_parent + 1 >= Len(ns[n.parent].children)
       THEN NoNode
       ELSE ns[n.parent].children[n.index_in_parent + 2]

\* merge_node: self absorbs the keys and the children of `node`, after its
\* own when `node` is its right neighbour and before them when it is its
\* left neighbour; the slot of `node` is removed from the parent.
merge_node(ns, self, node) ==
    LET s == ns[self]
        n == ns[node]
        p == s.parent
        after == n.index_in_parent > s.index_in_parent
        keys == IF after THEN s.keys \o n.keys ELSE n.keys \o s.keys
        children == IF after THEN s.children \o n.children
                    ELSE n.children \o s.children
        pchildren == SelectSeq(ns[p].children, LAMBDA c : c # node)
        ns1 == [ns EXCEPT ![self].keys = keys, ![self].children = children,
                          ![node].keys = <<>>, ![node].children = <<>>,
                          ![p].children = pchildren]
        ns2 == [i \in 1..Len(ns1) |->
                  IF \E j \in 1..Len(children) : children[j] = i
                  THEN [ns1[i] EXCEPT !.parent = self] ELSE ns1[i]]
    IN update_children_indexes(update_children_indexes(ns2, self), p)

\* move_from_left: the largest key of the left sibling goes to the parent,
\* the parent's key at the node's own index goes to the node.
move_from_left(ns, left, parent, moved_to) ==
    LET idx == ns[moved_to].index_in_parent
    IN IF ns[left].keys = <<>> THEN [fault |-> "PanicUnwrapNone", nodes |-> ns]
       ELSE IF idx >= Len(ns[parent].keys)
       THEN [fault |-> "PanicIndexOutOfBounds", nodes |-> ns]
       ELSE LET left_key == ns[left].keys[Len(ns[left].keys)]
                parent_key_to_rotate == ns[parent].keys[idx + 1]
            IN [fault |-> "",
                nodes |-> [ns EXCEPT
                   ![left].keys = SubSeq(@, 1, Len(@) - 1),
                   ![parent].keys = add_key(RemoveAt(@, idx), left_key),
                   ![moved_to].keys = add_key(@, parent_key_to_rotate)]]

\* move_from_right that copies the right sibling's smallest key and leaves
\* it in the sibling.
move_from_right_copies(ns, right, parent, moved_to) ==
    LET idx == ns[moved_to].index_in_parent
    IN IF ns[right].keys = <<>> \/ idx >= Len(ns[parent].keys)
       THEN [fault |-> "PanicIndexOutOfBounds", nodes |-> ns]
       ELSE [fault |-> "",
             nodes |-> [ns EXCEPT
                ![parent].keys = add_key(RemoveAt(@, idx), ns[right].keys[1]),
                ![moved_to].keys = add_key(@, ns[parent].keys[idx + 1])]]

\* move_from_right: the smallest key of the right sibling goes to the
\* parent, the parent's key at the node's own index goes to the node.
move_from_right(ns, right, parent, moved_to) ==
    LET idx == ns[moved_to].index_in_parent
    IN IF ns[right].keys = <<>> \/ idx >= Len(ns[parent].keys)
       THEN [fault |-> "PanicIndexOutOfBounds", nodes |-> ns]
       ELSE LET right_key == ns[right].keys[1]
                parent_key_to_rotate == ns[parent].keys[idx + 1]
            IN [fault |-> "",
                nodes |-> [ns EXCEPT
                   ![right].keys = RemoveAt(@, 0),
                   ![parent].keys = add_key(RemoveAt(@, idx), right_key),
                   ![moved_to].keys = add_key(@, parent_key_to_rotate)]]

\* merge_with_left: the parent's key at the node's own index goes to the
\* left sibling, which then absorbs the node.
merge_with_left(ns, left_sibling, parent, moved_to) ==
    LET idx == ns[moved_to].index_in_parent
    IN IF idx >= Len(ns[parent].keys)
       THEN [fault |-> "PanicIndexOutOfBounds", nodes |-> ns]
       ELSE LET parent_key == ns[parent].keys[idx + 1]
                ns1 == [ns EXCEPT ![parent].keys = RemoveAt(@, idx),
                                  ![left_sibling].keys = add_key(@, parent_key)]
            IN [fault |-> "", nodes |-> merge_node(ns1, left_sibling, moved_to)]

\* merge_with_right: the parent's key after the node's own index goes to
\* the right sibling, which then absorbs the node.
merge_with_right(ns, right_sibling, parent, moved_to) ==
    LET idx == ns[moved_to].index_in_parent + 1
    IN IF idx >= Len(ns[parent].keys)
       THEN [fault |-> "PanicIndexOutOfBounds", nodes |-> ns]
       ELSE LET parent_key == ns[parent].keys[idx + 1]
                ns1 == [ns EXCEPT ![parent].keys = RemoveAt(@, idx),
                                  ![right_sibling].keys = add_key(@, parent_key)]
            IN [fault |-> "", nodes |-> merge_node(ns1, right_sibling, moved_to)]

\* The repair of BTree::delete_leaf for a leaf that BTree::delete found
\* deficient (the removal of the key and the occupancy test are those of
\* BTree::delete).  The node and the parent are mutably borrowed, so a
\* sibling handle that is the node itself cannot be borrowed.
delete_leaf(ns, node, ord) ==
    LET parent == ns[node].parent
        left == try_clone_left_sibling(ns, node)
        right == try_clone_right_sibling(ns, node)
    IN IF left = node THEN [fault |-> "PanicAlreadyBorrowed", nodes |-> ns]
       ELSE IF left # NoNode /\ has_more_than_min_keys(ns[left], ord)
       THEN move_from_left(ns, left, parent, node)
       ELSE IF right = node THEN [fault |-> "PanicAlreadyBorrowed", nodes |-> ns]
       ELSE IF right # NoNode /\ has_more_than_min_keys(ns[right], ord)
       THEN move_from_right(ns, right, parent, node)
       ELSE IF left # NoNode THEN merge_with_left(ns, left, parent, node)
       ELSE IF right # NoNode THEN merge_with_right(ns, right, parent, node)
       ELSE [fault |-> "", nodes |-> ns]

\* What BTree::delete returns once delete_leaf is through.
delete_done(ns, rt, d) ==
    IF d.fault # "" THEN [nodes |-> ns, root |-> rt, result |-> d.fault]
    ELSE [nodes |-> d.nodes, root |-> rt, result |-> "Ok"]

\* BTree::delete without the occupancy test: every leaf other than the
\* root is handed to the repair.
delete_rebalance_always(ns, ns1, rt, ord, node) ==
    IF ns1[node].parent = NoNode \/ ~is_leaf(ns1[node])
    THEN [nodes |-> ns1, root |-> rt, result |-> "Ok"]
    ELSE delete_done(ns, rt, delete_leaf(ns1, node, ord))

\* BTree::delete after keys.remove: ns1 is the arena without the key.
delete_rebalance(ns, ns1, rt, ord, node) ==
    LET node_to_delete_from == ns1[node]
        parent == node_to_delete_from.parent
    IN IF has_more_than_min_keys(node_to_delete_from, ord)
          \/ has_min_key_count(node_to_delete_from, ord)
          \/ parent = NoNode
       THEN [nodes |-> ns1, root |-> rt, result |-> "Ok"]
       ELSE IF node_to_delete_from.index_in_parent = NoIndex
       THEN [nodes |-> ns, root |-> rt, result |-> "PanicUnwrapNone"]
       ELSE IF ~is_leaf(node_to_delete_from)
       THEN [nodes |-> ns1, root |-> rt, result |-> "Ok"]
       ELSE delete_done(ns, rt, delete_leaf(ns1, node, ord))

\* BTree::delete without the is_found test: the key at the reported index
\* is removed whatever the search said.
delete_from_node_unchecked(ns, rt, ord, f) ==
    IF f.status = "Panic"
    THEN [nodes |-> ns, root |-> rt, result |-> f.fault]
    ELSE delete_rebalance(ns, [ns EXCEPT ![f.node].keys = RemoveAt(@, f.index)],
                          rt, ord, f.node)

\* BTree::delete after find.
delete_from_node(ns, rt, ord, f) ==
    IF f.status = "Panic"
    THEN [nodes |-> ns, root |-> rt, result |-> f.fault]
    ELSE IF f.status # "Found"
    THEN [nodes |-> ns, root |-> rt, result |-> "NotFound"]
    ELSE delete_rebalance(ns, [ns EXCEPT ![f.node].keys = RemoveAt(@, f.index)],
                          rt, ord, f.node)

\* BTree::delete.
delete(ns, rt, ord, value) ==
    delete_from_node(ns, rt, ord, find(ns, rt, value))

\* The nodes that are still owned (reachable from the root through the
\* children vectors), in preorder.
RECURSIVE PreorderAll(_, _)
PreorderAll(ns, todo) ==
    IF todo = <<>> THEN <<>>
    ELSE <<Head(todo)>> \o PreorderAll(ns, ns[Head(todo)].children \o Tail(todo))

Preorder(ns, n) == PreorderAll(ns, <<n>>)

\* What is left of the arena when a call returns: the nodes no Rc owns are
\* dropped (a Weak to one of them upgrades to None) and the owned ones are
\* numbered in preorder, the root first.
Compact(ns, rt) ==
    LET live == Preorder(ns, rt)
        Pos(id) == CHOOSE i \in 1..Len(live) : live[i] = id
        IsLive(id) == \E i \in 1..Len(live) : live[i] = id
    IN [i \in 1..Len(live) |->
          LET nd == ns[live[i]]
          IN [parent |-> IF nd.parent # NoNode /\ IsLive(nd.parent)
                         THEN Pos(nd.parent) ELSE NoNode,
              index_in_parent |-> nd.index_in_parent,
              keys |-> nd.keys,
              children |-> [j \in 1..Len(nd.children) |-> Pos(nd.children[j])]]]

\* The number of keys stored in the tree.
RECURSIVE SumLen(_, _)
SumLen(ns, i) == IF i = 0 THEN 0 ELSE Len(ns[i].keys) + SumLen(ns, i - 1)
Size == SumLen(nodes, Len(nodes))

\* BTree::new(order): one empty leaf as the root.
Init ==
    /\ order \in Orders
    /\ nodes = new_node_ref(<<>>)
    /\ root = 1
    /\ present = {}
    /\ fault = NoFault
    /\ deletes = 0
    /\ ret = NoRet

Returned(r) == r.result \notin Faults

FaultOf(r) == IF Returned(r) THEN NoFault ELSE r.result

\* The state a call leaves: the tree it built when it returned, the fault
\* when it did not.
Return(r) ==
    /\ fault' = FaultOf(r)
    /\ nodes' = IF Returned(r) THEN Compact(r.nodes, r.root) ELSE nodes
    /\ root' = IF Returned(r) THEN 1 ELSE root
    /\ UNCHANGED <<order, ret>>

Added(r, value) ==
    /\ Return(r)
    /\ present' = IF r.result = "Ok" THEN present \cup {value} ELSE present
    /\ UNCHANGED deletes

Deleted(r, value) ==
    /\ Return(r)
    /\ present' = IF r.result = "Ok" THEN present \ {value} ELSE present
    /\ deletes' = IF r.result = "Ok" THEN deletes + 1 ELSE deletes

\* A call of tree.add(value).
Add(value) ==
    /\ fault = NoFault
    /\ Size < MaxSize
    /\ Added(add(nodes, root, order, value), value)

\* A call of tree.delete(value).
Delete(value) ==
    /\ fault = NoFault
    /\ deletes < MaxDeletes \/ delete(nodes, root, order, value).result # "Ok"
    /\ Deleted(delete(nodes, root, order, value), value)

Next ==
    \/ \E value \in Keys : Add(value)
    \/ \E value \in Keys : Delete(value)

Spec == Init /\ [][Next]_vars

\* The tree with add calls only.
NextAdd == \E value \in Keys : Add(value)

SpecAdd == Init /\ [][NextAdd]_vars

\* The tree filled with the keys 1, 2, 3, ... in ascending order, as the
\* tests of the repository fill it, and delete calls on the filled tree.
FillKeys == 1..MaxFill

\* A call of tree.add with the next key of the ascending sequence.
Fill ==
    /\ fault = NoFault
    /\ deletes = 0
    /\ present = 1..Cardinality(present)
    /\ Cardinality(present) < MaxFill
    /\ Added(add(nodes, root, order, Cardinality(present) + 1),
             Cardinality(present) + 1)

NextFill ==
    \/ Fill
    \/ \E value \in FillKeys : Delete(value)

SpecFill == Init /\ [][NextFill]_vars

\* BTree::new for any order a caller may pass, the orders below 3 included.
\* Node::new computes order - 1 and ceil(order / 2) - 1 in usize: for order
\* 0 the subtraction overflows (a panic in a debug build; in a release
\* build it wraps and Vec::with_capacity panics on the capacity), for
\* every other order the tree is built.
AnyOrders == 0..MaxOrder

new(ord) == IF ord = 0 THEN "PanicSubtractOverflow" ELSE NoFault

InitNew ==
    /\ order \in AnyOrders
    /\ nodes = new_node_ref(<<>>)
    /\ root = 1
    /\ present = {}
    /\ fault = new(order)
    /\ deletes = 0
    /\ ret = NoRet

\* Trees of any order, with add calls only.
SpecNew == InitNew /\ [][NextAdd]_vars

\* ---- Structure of the tree a returned call leaves ----

NodeIds == 1..Len(nodes)

NonLeaves == {n \in NodeIds : ~is_leaf(nodes[n])}

\* The keys stored in the subtree of node n.
SubtreeKeys(ns, n) ==
    LET below == Preorder(ns, n)
    IN UNION {{ns[below[j]].keys[i] : i \in 1..Len(ns[below[j]].keys)} :
                 j \in 1..Len(below)}

\* The depths at which the leaves below node n lie, n being at depth d.
RECURSIVE LeafDepths(_, _, _)
LeafDepths(ns, n, d) ==
    IF is_leaf(ns[n]) THEN {d}
    ELSE UNION {LeafDepths(ns, ns[n].children[i], d + 1) :
                   i \in 1..Len(ns[n].children)}

\* C1: once a call has returned, every non-leaf node has exactly
\* keys.len() + 1 children.
C1_ChildCount ==
    fault = NoFault =>
        \A n \in NonLeaves : Len(nodes[n].children) = Len(nodes[n].keys) + 1

\* C2: once a call has returned, for every non-leaf node and key index i,
\* every key in children[i] is smaller than keys[i] and every key in
\* children[i+1] is larger than keys[i].
C2_SeparatorOrder ==
    fault = NoFault =>
        \A n \in NonLeaves : \A i \in 1..Len(nodes[n].keys) :
            /\ i <= Len(nodes[n].children) =>
                  \A k \in SubtreeKeys(nodes, nodes[n].children[i]) : k < nodes[n].keys[i]
            /\ i + 1 <= Len(nodes[n].children) =>
                  \A k \in SubtreeKeys(nodes, nodes[n].children[i + 1]) : k > nodes[n].keys[i]

\* C3: once a call has returned, every node other than the root holds at
\* least min_keys = ceil(order/2) - 1 keys.
C3_MinKeys ==
    fault = NoFault =>
        \A n \in NodeIds \ {root} : Len(nodes[n].keys) >= min_keys(order)

\* C4: once a call has returned, all leaves are at the same depth.
C4_LeavesSameDepth ==
    fault = NoFault => Cardinality(LeafDepths(nodes, root, 1)) = 1

\* C5: once a call has returned, children[i].parent is the node and
\* children[i].index_in_parent is i, for every node and position i.
C5_ParentLinks ==
    fault = NoFault =>
        \A n \in NodeIds : \A i \in 1..Len(nodes[n].children) :
            /\ nodes[nodes[n].children[i]].parent = n
            /\ nodes[nodes[n].children[i]].index_in_parent = i - 1

\* C6: once a call has returned, the keys of every node are strictly
\* ascending.
C6_KeysAscending ==
    fault = NoFault =>
        \A n \in NodeIds : \A i \in 1..(Len(nodes[n].keys) - 1) :
            nodes[n].keys[i] < nodes[n].keys[i + 1]

\* A tree of three levels on which a delete call has returned Ok.
C4_Witness ==
    /\ fault = NoFault
    /\ deletes > 0
    /\ LeafDepths(nodes, root, 1) = {3}

\* ---- Search, traversal ----

\* The key is stored in some node of the tree.
Contains(ns, rt, k) == k \in SubtreeKeys(ns, rt)

\* What the tree's search reports for key k.
Search(ns, rt, k) == find(ns, rt, k).status

\* C7: with add calls only, find reports Found for every key that was
\* added and NotFound for every key that was not.
C7_FindAfterAdds ==
    \A k \in Keys :
        Search(nodes, root, k) = (IF k \in present THEN "Found" ELSE "NotFound")

\* Every key of the range was added and the tree has three levels.
C7_Witness ==
    /\ present = Keys
    /\ LeafDepths(nodes, root, 1) = {3}
    /\ \A k \in Keys : Search(nodes, root, k) = "Found"

\* C8: after delete(k) returns Ok on a tree that contained k, search
\* reports k as absent and reports every other key as it did before.
C8_DeleteRoundTrip ==
    [][\A k \in Keys :
          (/\ Contains(nodes, root, k)
           /\ Delete(k)
           /\ delete(nodes, root, order, k).result = "Ok")
          => /\ Search(nodes', root', k) = "NotFound"
             /\ \A j \in Keys \ {k} :
                   Search(nodes', root', j) = Search(nodes, root, j)]_vars

\* The keys of the subtree of n in order: child 0, key 0, child 1, key 1, ...
RECURSIVE InOrderFrom(_, _, _)
InOrderFrom(ns, n, i) ==
    IF i > Len(ns[n].children) /\ i > Len(ns[n].keys) THEN <<>>
    ELSE (IF i <= Len(ns[n].children)
          THEN InOrderFrom(ns, ns[n].children[i], 1) ELSE <<>>)
         \o (IF i <= Len(ns[n].keys) THEN <<ns[n].keys[i]>> ELSE <<>>)
         \o InOrderFrom(ns, n, i + 1)

InOrder(ns, n) == InOrderFrom(ns, n, 1)

\* The elements of a set of numbers in ascending order.
RECURSIVE Ascending(_)
Ascending(S) ==
    IF S = {} THEN <<>>
    ELSE LET m == CHOOSE x \in S : \A y \in S : x <= y
         IN <<m>> \o Ascending(S \ {m})

\* C9: after any sequence of add and delete calls, the in-order traversal
\* is the ascending sequence of the keys whose add succeeded and that were
\* not since successfully deleted.
C9_InOrderIsPresent ==
    fault = NoFault => InOrder(nodes, root) = Ascending(present)

\* C10: add(k) on a tree that already contains k returns
\* Err(ValueAlreadyExists) and leaves the root and every node unchanged.
C10_DuplicateAdd ==
    [][\A k \in Keys :
          (Contains(nodes, root, k) /\ Add(k))
          => /\ add(nodes, root, order, k).result = "ValueAlreadyExists"
             /\ nodes' = nodes
             /\ root' = root]_vars

\* ---- Delete ----

\* C11: delete(k) on a tree that does not contain k returns Err(NotFound)
\* and leaves the root and every node's keys, children, parent and
\* index_in_parent unchanged.
C11_DeleteAbsent ==
    [][\A k \in Keys :
          (~Contains(nodes, root, k) /\ Delete(k))
          => /\ delete(nodes, root, order, k).result = "NotFound"
             /\ nodes' = nodes
             /\ root' = root]_vars

\* A tree of three levels, after a delete that returned Ok, on which the
\* delete of a key it does not hold returns Err(NotFound) with the arena
\* and the root as they are.
C11_Witness ==
    /\ fault = NoFault
    /\ deletes > 0
    /\ LeafDepths(nodes, root, 1) = {3}
    /\ \E k \in Keys :
          /\ ~Contains(nodes, root, k)
          /\ delete(nodes, root, order, k) =
                [nodes |-> nodes, root |-> root, result |-> "NotFound"]

\* C12: no sequence of add and delete calls on a tree of order >= 3 ends
\* in an out-of-bounds index into keys or children, an unwrap of an absent
\* parent, index_in_parent or key, or the "Unable to find value" panic of
\* find_key_index.
C12_NoFatalError ==
    fault \notin {"PanicIndexOutOfBounds", "PanicUnwrapNone", "PanicUnableToFind"}

\* The largest and the smallest key of a non-empty set of keys.
MaxOf(S) == CHOOSE x \in S : \A y \in S : y <= x
MinOf(S) == CHOOSE x \in S : \A y \in S : x <= y

\* C13: a delete that returns Ok for a key stored in a non-leaf node puts
\* the key's predecessor (the largest key below the child on its left) or
\* its successor (the smallest key below the child on its right) in its
\* place, so that the node has as many keys as before, and every other key
\* of the tree is still found by search.
C13_InternalDelete ==
    [][\A k \in Keys :
          LET f == find(nodes, root, k)
              n == f.node
              i == f.index + 1
          IN (/\ f.status = "Found"
              /\ ~is_leaf(nodes[n])
              /\ Delete(k)
              /\ delete(nodes, root, order, k).result = "Ok")
             => /\ n <= Len(nodes')
                /\ Len(nodes'[n].keys) = Len(nodes[n].keys)
                /\ nodes'[n].keys[i] \in
                      {MaxOf(SubtreeKeys(nodes, nodes[n].children[i])),
                       MinOf(SubtreeKeys(nodes, nodes[n].children[i + 1]))}
                /\ \A j \in Keys \ {k} :
                      Contains(nodes, root, j) => Search(nodes', root', j) = "Found"]_vars

\* ---- Repair of a deficient leaf ----

\* The position (0-based) of node n in the children of its parent.
ChildPos(ns, n) ==
    (CHOOSE j \in 1..Len(ns[ns[n].parent].children) :
        ns[ns[n].parent].children[j] = n) - 1

\* The children of n's parent just before and just after n, NoNode when n
\* is the first or the last child.
LeftSibling(ns, n) ==
    IF ChildPos(ns, n) = 0 THEN NoNode
    ELSE ns[ns[n].parent].children[ChildPos(ns, n)]

RightSibling(ns, n) ==
    IF ChildPos(ns, n) + 2 > Len(ns[ns[n].parent].children) THEN NoNode
    ELSE ns[ns[n].parent].children[ChildPos(ns, n) + 2]

\* The node that holds key k.
HolderOf(k) == find(nodes, root, k).node

\* Key k is in a leaf other than the root, which holds fewer than min_keys
\* keys once k is removed.
LeavesLeafDeficient(k) ==
    /\ find(nodes, root, k).status = "Found"
    /\ is_leaf(nodes[HolderOf(k)])
    /\ nodes[HolderOf(k)].parent # NoNode
    /\ Len(nodes[HolderOf(k)].keys) - 1 < min_keys(order)

\* Sibling s exists and has more than min_keys keys.
CanLend(s) == s # NoNode /\ Len(nodes[s].keys) > min_keys(order)

\* The keys of k's holder without k.
KeysWithout(k) ==
    RemoveAt(nodes[HolderOf(k)].keys, find(nodes, root, k).index)

\* C14: when delete leaves a non-root leaf at child index i below min_keys
\* and its left sibling has more than min_keys keys, the call returns Ok,
\* the left sibling's largest key replaces parent.keys[i-1], the left
\* sibling loses that key and the old separator is added to the leaf.
C14_MoveFromLeft ==
    [][\A k \in Keys :
          (/\ LeavesLeafDeficient(k)
           /\ CanLend(LeftSibling(nodes, HolderOf(k)))
           /\ Delete(k))
          => LET n == HolderOf(k)
                 p == nodes[n].parent
                 i == ChildPos(nodes, n)
                 l == LeftSibling(nodes, n)
                 r == delete(nodes, root, order, k)
             IN /\ r.result = "Ok"
                /\ r.nodes[p].keys =
                      [nodes[p].keys EXCEPT ![i] = nodes[l].keys[Len(nodes[l].keys)]]
                /\ r.nodes[l].keys = SubSeq(nodes[l].keys, 1, Len(nodes[l].keys) - 1)
                /\ r.nodes[n].keys = add_key(KeysWithout(k), nodes[p].keys[i])]_vars

\* C15: when delete leaves a non-root leaf at child index i below min_keys,
\* no left sibling can lend and its right sibling has more than min_keys
\* keys, the call returns Ok, the right sibling's smallest key replaces
\* parent.keys[i], the right sibling loses that key and the old separator
\* is added to the leaf.
C15_MoveFromRight ==
    [][\A k \in Keys :
          (/\ LeavesLeafDeficient(k)
           /\ ~CanLend(LeftSibling(nodes, HolderOf(k)))
           /\ CanLend(RightSibling(nodes, HolderOf(k)))
           /\ Delete(k))
          => LET n == HolderOf(k)
                 p == nodes[n].parent
                 i == ChildPos(nodes, n)
                 rs == RightSibling(nodes, n)
                 r == delete(nodes, root, order, k)
             IN /\ r.result = "Ok"
                /\ r.nodes[p].keys = [nodes[p].keys EXCEPT ![i + 1] = nodes[rs].keys[1]]
                /\ r.nodes[rs].keys = RemoveAt(nodes[rs].keys, 0)
                /\ r.nodes[n].keys = add_key(KeysWithout(k), nodes[p].keys[i + 1])]_vars

\* Neither sibling of k's holder can lend a key.
NoSiblingCanLend(k) ==
    /\ ~CanLend(LeftSibling(nodes, HolderOf(k)))
    /\ ~CanLend(RightSibling(nodes, HolderOf(k)))

\* C16: when delete leaves a non-root leaf at child index i below min_keys,
\* neither sibling can lend and a left sibling exists, the call returns Ok,
\* the left sibling holds its own keys, parent.keys[i-1] and the leaf's
\* remaining keys in ascending order, and the parent loses exactly that
\* separator and the leaf's child slot.
C16_MergeWithLeft ==
    [][\A k \in Keys :
          (/\ LeavesLeafDeficient(k)
           /\ NoSiblingCanLend(k)
           /\ LeftSibling(nodes, HolderOf(k)) # NoNode
           /\ Delete(k))
          => LET n == HolderOf(k)
                 p == nodes[n].parent
                 i == ChildPos(nodes, n)
                 l == LeftSibling(nodes, n)
                 r == delete(nodes, root, order, k)
             IN /\ r.result = "Ok"
                /\ r.nodes[l].keys =
                      nodes[l].keys \o <<nodes[p].keys[i]>> \o KeysWithout(k)
                /\ r.nodes[p].keys = RemoveAt(nodes[p].keys, i - 1)
                /\ r.nodes[p].children = RemoveAt(nodes[p].children, i)]_vars

\* C17: when delete leaves the leftmost leaf of its parent below min_keys
\* and its right sibling has exactly min_keys keys, the call returns Ok,
\* the leaf, parent.keys[0] and the right sibling become one node with
\* ascending keys in the parent's first child slot, and the parent loses
\* exactly that separator and one child slot.
C17_MergeWithRight ==
    [][\A k \in Keys :
          (/\ LeavesLeafDeficient(k)
           /\ ChildPos(nodes, HolderOf(k)) = 0
           /\ RightSibling(nodes, HolderOf(k)) # NoNode
           /\ Len(nodes[RightSibling(nodes, HolderOf(k))].keys) = min_keys(order)
           /\ Delete(k))
          => LET n == HolderOf(k)
                 p == nodes[n].parent
                 rs == RightSibling(nodes, n)
                 r == delete(nodes, root, order, k)
             IN /\ r.result = "Ok"
                /\ r.nodes[p].keys = RemoveAt(nodes[p].keys, 0)
                /\ Len(r.nodes[p].children) = Len(nodes[p].children) - 1
                /\ Tail(r.nodes[p].children) = Tail(Tail(nodes[p].children))
                /\ r.nodes[r.nodes[p].children[1]].keys =
                      KeysWithout(k) \o <<nodes[p].keys[1]>> \o nodes[rs].keys]_vars

\* The number of levels of the tree.
Height(ns, rt) == MaxOf(LeafDepths(ns, rt, 1))

\* C18: when the leaf that delete leaves below min_keys is one of exactly
\* two children of the root and neither sibling can lend, so that the merge
\* takes the root's only key, the call returns Ok, the merged node is the
\* root, has no parent and no index_in_parent, and the tree is one level
\* lower.
C18_RootShrinks ==
    [][\A k \in Keys :
          (/\ LeavesLeafDeficient(k)
           /\ nodes[HolderOf(k)].parent = root
           /\ Len(nodes[root].children) = 2
           /\ Len(nodes[root].keys) = 1
           /\ NoSiblingCanLend(k)
           /\ Delete(k))
          => /\ delete(nodes, root, order, k).result = "Ok"
             /\ nodes'[root'].keys = Ascending(SubtreeKeys(nodes, root) \ {k})
             /\ nodes'[root'].parent = NoNode
             /\ nodes'[root'].index_in_parent = NoIndex
             /\ Height(nodes', root') = Height(nodes, root) - 1]_vars

\* The nodes above node n, its parent first.
RECURSIVE Ancestors(_, _)
Ancestors(ns, n) ==
    IF ns[n].parent = NoNode THEN {}
    ELSE {ns[n].parent} \cup Ancestors(ns, ns[n].parent)

\* The nodes the tree owns.
Owned(ns, rt) == {Preorder(ns, rt)[j] : j \in 1..Len(Preorder(ns, rt))}

\* C19: when delete returns Ok after a merge (the leaf it left below
\* min_keys had no sibling that could lend), no node that was on the path
\* from the leaf to the root and is still in the tree is deficient: each
\* holds min_keys keys or more, the root one key or more unless it is a
\* leaf.
C19_RepairPropagates ==
    [][\A k \in FillKeys :
          (/\ LeavesLeafDeficient(k)
           /\ NoSiblingCanLend(k)
           /\ Delete(k)
           /\ delete(nodes, root, order, k).result = "Ok")
          => LET r == delete(nodes, root, order, k)
             IN \A a \in Ancestors(nodes, HolderOf(k)) \cap Owned(r.nodes, r.root) :
                   IF a = r.root
                   THEN is_leaf(r.nodes[a]) \/ Len(r.nodes[a].keys) >= 1
                   ELSE Len(r.nodes[a].keys) >= min_keys(order)]_vars

\* C20: when delete leaves a leaf below min_keys and the leaf is the first
\* or the last child of its parent, the call returns Ok without a fatal
\* error and the repair through the sibling that exists leaves no child of
\* the parent below min_keys.
C20_EdgeLeafRepaired ==
    [][\A k \in Keys :
          (/\ LeavesLeafDeficient(k)
           /\ \/ LeftSibling(nodes, HolderOf(k)) = NoNode
              \/ RightSibling(nodes, HolderOf(k)) = NoNode
           /\ Delete(k))
          => LET p == nodes[HolderOf(k)].parent
                 r == delete(nodes, root, order, k)
             IN /\ r.result = "Ok"
                /\ \A j \in 1..Len(r.nodes[p].children) :
                      Len(r.nodes[r.nodes[p].children[j]].keys) >= min_keys(order)]_vars

\* ---- Delete without repair, growth of the tree ----

\* Key k is in a leaf that is the root, or in a leaf other than the root
\* that holds min_keys keys or more once k is removed.
LeavesLeafSound(k) ==
    /\ find(nodes, root, k).status = "Found"
    /\ is_leaf(nodes[HolderOf(k)])
    /\ \/ HolderOf(k) = root
       \/ Len(nodes[HolderOf(k)].keys) - 1 >= min_keys(order)

\* C21: when the key is in a leaf that is the root, or in a non-root leaf
\* that keeps min_keys keys or more, delete returns Ok, removes exactly that
\* key from that leaf and changes no other field of any node nor the root.
C21_SimpleLeafDelete ==
    [][\A k \in Keys :
          (LeavesLeafSound(k) /\ Delete(k))
          => /\ delete(nodes, root, order, k).result = "Ok"
             /\ nodes' = [nodes EXCEPT ![HolderOf(k)].keys = KeysWithout(k)]
             /\ root' = root]_vars

\* A tree of three levels with a key in a leaf that can spare it, whose
\* delete gives the same arena without that key.
C21_Witness ==
    /\ fault = NoFault
    /\ LeafDepths(nodes, root, 1) = {3}
    /\ \E k \in Keys :
          /\ LeavesLeafSound(k)
          /\ delete(nodes, root, order, k) =
                [nodes |-> [nodes EXCEPT ![HolderOf(k)].keys = KeysWithout(k)],
                 root |-> root, result |-> "Ok"]

\* Node n and every node above it hold order - 1 keys: one more key in n
\* makes the root overflow.
RECURSIVE FullToRoot(_)
FullToRoot(n) ==
    /\ Len(nodes[n].keys) = order - 1
    /\ nodes[n].parent # NoNode => FullToRoot(nodes[n].parent)

\* The node add would put key k in.
InsertNodeOf(k) == find_insert_node(nodes, root, k).node

C23_NoOverflow ==
    fault = NoFault => \A n \in NodeIds : Len(nodes[n].keys) <= order - 1

C23_Witness ==
    /\ fault = NoFault
    /\ deletes = 0
    /\ Size = MaxSize
    /\ Height(nodes, root) = 3
    /\ \A n \in NodeIds : Len(nodes[n].keys) <= order - 1

\* ---- split_node ----

\* split_node on node self of arena ns, which has n keys: the node keeps
\* floor(n/2) keys, a new node gets n - floor(n/2) - 1 keys, and the kept
\* keys, the returned key and the new node's keys are, in this order, the
\* keys the node had.
SplitsKeys(ns, self) ==
    LET keys == ns[self].keys
        n == Len(keys)
        sp == split_node(ns, self)
    IN /\ sp.right_node = Len(ns) + 1
       /\ Len(sp.nodes) = Len(ns) + 1
       /\ Len(sp.nodes[self].keys) = n \div 2
       /\ Len(sp.nodes[sp.right_node].keys) = n - (n \div 2) - 1
       /\ sp.nodes[self].keys \o <<sp.mid_key>> \o sp.nodes[sp.right_node].keys = keys

\* The arena when add has put key k in its leaf and has not yet split it.
WithKey(k) ==
    [nodes EXCEPT ![InsertNodeOf(k)].keys = add_key(@, k)]

\* C24: split_node on a node with n keys leaves the first floor(n/2) keys
\* in the node, returns the key at index floor(n/2) and puts the remaining
\* n - floor(n/2) - 1 keys, in the same order, into a newly created node.
\* Checked on every node of the tree that has a key (n from 1 to order - 1)
\* and on every leaf as add hands it to split_if_full (n up to order).
C24_SplitNodeKeys ==
    fault = NoFault =>
        /\ \A n \in NodeIds : nodes[n].keys # <<>> => SplitsKeys(nodes, n)
        /\ \A k \in Keys :
              find_insert_node(nodes, root, k).status = "NotFound"
              => SplitsKeys(WithKey(k), InsertNodeOf(k))

\* A tree of order 4 with a leaf of three keys: the add of a fourth key
\* hands split_node a node with an even number of keys.
C24_Witness ==
    /\ fault = NoFault
    /\ order = 4
    /\ Height(nodes, root) = 2
    /\ \E k \in Keys :
          /\ find_insert_node(nodes, root, k).status = "NotFound"
          /\ Len(WithKey(k)[InsertNodeOf(k)].keys) = order
          /\ SplitsKeys(WithKey(k), InsertNodeOf(k))

\* ---- Construction ----

\* C25: creating a tree with order 0, 1 or 2 fails at BTree::new.
C25_SmallOrderRejected ==
    order < 3 => fault # NoFault

\* ---- Search ----

\* C26: a call that only searches, the add of a key the tree holds (the
\* search finds it) and the delete of a key it does not hold (the search
\* misses it), changes no node's keys, children, parent or index_in_parent
\* and not the root.
C26_SearchIsPure ==
    [][\A k \in Keys :
          (\/ Add(k) /\ add(nodes, root, order, k).result = "ValueAlreadyExists"
           \/ Delete(k) /\ delete(nodes, root, order, k).result = "NotFound")
          => nodes' = nodes /\ root' = root]_vars

\* A tree of three levels on which a search that finds its key and a
\* search that misses its key both give the arena back as it is.
C26_Witness ==
    /\ fault = NoFault
    /\ Height(nodes, root) = 3
    /\ \E k \in Keys :
          add(nodes, root, order, k) =
             [nodes |-> nodes, root |-> root, result |-> "ValueAlreadyExists"]
    /\ \E k \in Keys :
          delete(nodes, root, order, k) =
             [nodes |-> nodes, root |-> root, result |-> "NotFound"]

\* ---- Children moved by split_node ----

\* C27: when an add call splits a non-leaf node, each child split_node
\* moved to the new right node has the right node as parent and its
\* position among the right node's children as index_in_parent.  The right
\* nodes of the call are the non-leaf nodes it created other than a new
\* root; nothing writes the fields of their children after split_node.
C27_MovedChildrenIndexed ==
    [][\A k \in Keys :
          (Add(k) /\ add(nodes, root, order, k).result = "Ok")
          => LET r == add(nodes, root, order, k)
             IN \A i \in (Len(nodes) + 1)..Len(r.nodes) :
                   (~is_leaf(r.nodes[i]) /\ i # r.root)
                   => \A j \in 1..Len(r.nodes[i].children) :
                         /\ r.nodes[r.nodes[i].children[j]].parent = i
                         /\ r.nodes[r.nodes[i].children[j]].index_in_parent = j - 1]_vars

\* ---- Frame and order of the repair ----

\* The arena after a rotation that lends a key of sibling s to leaf n
\* through their parent p: these three nodes have the keys given by after,
\* everything else is as in before.
OnlyKeysOf(before, after, n, s, p) ==
    after = [before EXCEPT ![n].keys = after[n].keys,
                           ![s].keys = after[s].keys,
                           ![p].keys = after[p].keys]

Without(k) == [nodes EXCEPT ![HolderOf(k)].keys = KeysWithout(k)]

\* The first of the four repairs that applies to the leaf n that held k,
\* by the siblings n has in its parent's children: borrow from the left,
\* borrow from the right, merge with the left, merge with the right.
RepairInOrder(k, n, p, l, rs) ==
    IF CanLend(l) THEN move_from_left(Without(k), l, p, n)
    ELSE IF CanLend(rs) THEN move_from_right(Without(k), rs, p, n)
    ELSE IF l # NoNode THEN merge_with_left(Without(k), l, p, n)
    ELSE IF rs # NoNode THEN merge_with_right(Without(k), rs, p, n)
    ELSE [fault |-> "", nodes |-> Without(k)]

\* C29: the repair of a deficient leaf applies exactly one of the four
\* options, the first that is possible in the order borrow from the left
\* sibling, borrow from the right sibling, merge with the left sibling,
\* merge with the right sibling: what delete_leaf does to the arena is what
\* that option does to it.
C29_RepairOrder ==
    [][\A k \in Keys :
          (LeavesLeafDeficient(k) /\ Delete(k))
          => delete_leaf(Without(k), HolderOf(k), order)
                = RepairInOrder(k, HolderOf(k), nodes[HolderOf(k)].parent,
                                LeftSibling(nodes, HolderOf(k)),
                                RightSibling(nodes, HolderOf(k)))]_vars

\* ---- Descent of add ----

\* Key k lies between the keys that node a has on either side of its
\* child at 0-based position i.
FitsAt(a, i, k) ==
    /\ i > 0 => nodes[a].keys[i] < k
    /\ i < Len(nodes[a].keys) => k < nodes[a].keys[i + 1]

\* C30: add puts a new key in a leaf, the one that the descent reaches by
\* following in each node the child at the index where the key would be
\* inserted: the key lies between the separators of every node above that
\* leaf, and when add returns Ok without a split the leaf holds the key.
C30_AddIntoLeaf ==
    [][\A k \in Keys :
          (find(nodes, root, k).status = "NotFound" /\ Add(k))
          => LET n == InsertNodeOf(k)
             IN /\ is_leaf(nodes[n])
                /\ \A c \in {n} \cup Ancestors(nodes, n) :
                      nodes[c].parent # NoNode
                      => FitsAt(nodes[c].parent, ChildPos(nodes, c), k)
                /\ Len(nodes[n].keys) < order - 1
                   => add(nodes, root, order, k) =
                         [nodes |-> [nodes EXCEPT ![n].keys = add_key(@, k)],
                          root |-> root, result |-> "Ok"]]_vars

\* C30 witness: a tree of three levels and a key that is not in it, whose
\* descent leaves the root and the node below it by a child other than the
\* first and ends at a leaf with room, which add puts the key in.
C30_Witness ==
    /\ fault = NoFault
    /\ Height(nodes, root) = 3
    /\ \E k \in Keys :
          /\ find(nodes, root, k).status = "NotFound"
          /\ is_leaf(nodes[InsertNodeOf(k)])
          /\ \A c \in {InsertNodeOf(k)} \cup Ancestors(nodes, InsertNodeOf(k)) :
                nodes[c].parent # NoNode
                => /\ ChildPos(nodes, c) > 0
                   /\ FitsAt(nodes[c].parent, ChildPos(nodes, c), k)
          /\ Len(nodes[InsertNodeOf(k)].keys) < order - 1
          /\ add(nodes, root, order, k).result = "Ok"
          /\ \E i \in 1..Len(add(nodes, root, order, k).nodes[InsertNodeOf(k)].keys) :
                add(nodes, root, order, k).nodes[InsertNodeOf(k)].keys[i] = k

\* ---- Calls on a single node ----

\* Bounds of the calls on a single node: the keys a child may hold and the
\* children a node is given.
MaxChildKey == 4
MaxChildren == 3

\* The keys a child given to add_child may hold: one key, or a smallest and
\* a largest one (add_child looks at no other key of a child).
ChildKeys ==
    {<<lo>> : lo \in 1..MaxChildKey}
    \cup UNION {{<<lo, hi>> : hi \in (lo + 1)..MaxChildKey} : lo \in 1..MaxChildKey}

\* The indices a caller may hand to try_clone_child.
ChildIndexes == -1..(MaxChildren + 1)

\* The keys a caller may look for in a node: those a node may hold and one
\* below and one above them all.
SearchKeys == 0..(MaxKey + 1)

\* Node::new(order), as the unit tests of the node module start.
InitNode ==
    /\ order \in Orders
    /\ nodes = new_node_ref(<<>>)
    /\ root = 1
    /\ present = {}
    /\ fault = NoFault
    /\ deletes = 0
    /\ ret = NoRet

\* A call of node.add_key(key) on a node without children that does not
\* overflow, with a key it does not hold.
AddKey(key) ==
    /\ fault = NoFault
    /\ nodes[root].children = <<>>
    /\ ~is_key_overflowing(nodes[root], order)
    /\ \A i \in 1..Len(nodes[root].keys) : nodes[root].keys[i] # key
    /\ nodes' = [nodes EXCEPT ![root].keys = add_key(@, key)]
    /\ present' = present \cup {key}
    /\ ret' = NoRet
    /\ UNCHANGED <<root, order, fault, deletes>>

\* A call of node.find_key_index(key).
FindKeyIndex(key) ==
    /\ fault = NoFault
    /\ LET search_result == find_key_index(nodes[root].keys, key)
       IN /\ fault' = IF search_result.status = "PanicUnableToFind"
                      THEN "PanicUnableToFind" ELSE NoFault
          /\ ret' = [op |-> "find_key_index", val |-> search_result]
    /\ UNCHANGED <<nodes, root, order, present, deletes>>

\* What split_node hands back, the right node by value.
SplitReturn(sp) ==
    [op |-> "split_node",
     val |-> [mid_key |-> sp.mid_key, right_keys |-> sp.nodes[sp.right_node].keys]]

\* A call of node.split_node() on a node that overflows; the caller drops
\* the right node once it has looked at it.
SplitNode ==
    /\ fault = NoFault
    /\ is_key_overflowing(nodes[root], order)
    /\ nodes' = <<split_node(nodes, root).nodes[root]>>
    /\ ret' = SplitReturn(split_node(nodes, root))
    /\ present' = {nodes'[root].keys[i] : i \in 1..Len(nodes'[root].keys)}
    /\ UNCHANGED <<root, order, fault, deletes>>

\* The arena with one more node, which holds keys.
WithChild(ns, keys) == Append(ns, [NewNode EXCEPT !.keys = keys])

\* The state add_child leaves.
ChildAdded(r) ==
    /\ fault' = IF r.fault = "" THEN NoFault ELSE r.fault
    /\ nodes' = IF r.fault = "" THEN r.nodes ELSE nodes
    /\ ret' = NoRet
    /\ UNCHANGED <<root, order, present, deletes>>

\* A call of node.add_child(child) on a node without keys, with a new child
\* that holds keys, as the unit tests of add_child call it.
AddChild(keys) ==
    /\ fault = NoFault
    /\ nodes[root].keys = <<>>
    /\ Len(nodes[root].children) < MaxChildren
    /\ ChildAdded(add_child(WithChild(nodes, keys), root, Len(nodes) + 1))

\* The state try_clone_child leaves.
ChildCloned(r) ==
    /\ fault' = IF r.fault = "" THEN NoFault ELSE r.fault
    /\ ret' = IF r.fault = "" THEN [op |-> "try_clone_child", val |-> r.child]
              ELSE ret
    /\ UNCHANGED <<nodes, root, order, present, deletes>>

\* A call of node.try_clone_child(index).
TryCloneChild(index) ==
    /\ fault = NoFault
    /\ ChildCloned(try_clone_child(nodes[root], index))

NextNode ==
    \/ \E key \in Keys : AddKey(key)
    \/ \E key \in SearchKeys : FindKeyIndex(key)
    \/ SplitNode
    \/ \E keys \in ChildKeys : AddChild(keys)
    \/ \E index \in ChildIndexes : TryCloneChild(index)

SpecNode == InitNode /\ [][NextNode]_vars

\* ---- find_key_index and add_key ----

\* The keys of a sequence of keys.
KeySet(keys) == {keys[i] : i \in 1..Len(keys)}

StrictlyAscending(keys) == \A i \in 1..(Len(keys) - 1) : keys[i] < keys[i + 1]

\* Where key is in strictly ascending keys, or how many of them are smaller.
Located(keys, key) ==
    IF key \in KeySet(keys)
    THEN Found((CHOOSE i \in 1..Len(keys) : keys[i] = key) - 1)
    ELSE NotFound(Cardinality({i \in 1..Len(keys) : keys[i] < key}))

\* C31: on a node whose keys are strictly ascending, find_key_index returns
\* Found(i) with keys[i] = key when the key is in the node and otherwise
\* NotFound(i) with i the number of keys smaller than the key; it does not
\* reach its panic.
C31_FindKeyIndex ==
    [][\A key \in SearchKeys :
          (StrictlyAscending(nodes[root].keys) /\ FindKeyIndex(key))
          => /\ fault' = NoFault
             /\ ret'.val = Located(nodes[root].keys, key)]_vars

\* C31 witness: a search in a node of at least four keys has returned
\* NotFound(i) for a key that belongs between two keys of the node.
C31_Witness ==
    /\ fault = NoFault
    /\ ret.op = "find_key_index"
    /\ Len(nodes[root].keys) >= 4
    /\ ret.val.status = "NotFound"
    /\ ret.val.index > 1
    /\ ret.val.index < Len(nodes[root].keys) - 1

\* C32: add_key on a node whose keys are ascending, with a key that is not
\* in the node, leaves the old keys and the new key in ascending order.
C32_AddKeySorted ==
    [][\A key \in Keys :
          (/\ StrictlyAscending(nodes[root].keys)
           /\ key \notin KeySet(nodes[root].keys)
           /\ AddKey(key))
          => nodes'[root].keys = Ascending(KeySet(nodes[root].keys) \cup {key})]_vars

\* The keys that are in ascending keys and between lo and hi.
Between(keys, lo, hi) == {k \in Keys \ KeySet(keys) : lo < k /\ k < hi}

\* add_key puts key in its place in keys.
AddsInPlace(keys, key) == add_key(keys, key) = Ascending(KeySet(keys) \cup {key})

\* C32 witness: a node of at least three ascending keys that add_key has
\* built, and three keys that are not in it and belong in front of its keys,
\* between them and after them, each of which add_key puts in its place.
C32_Witness ==
    /\ fault = NoFault
    /\ Len(nodes[root].keys) >= 3
    /\ present = KeySet(nodes[root].keys)
    /\ StrictlyAscending(nodes[root].keys)
    /\ \E key \in Between(nodes[root].keys, 0, nodes[root].keys[1]) :
          AddsInPlace(nodes[root].keys, key)
    /\ \E key \in Between(nodes[root].keys, nodes[root].keys[1],
                          nodes[root].keys[Len(nodes[root].keys)]) :
          AddsInPlace(nodes[root].keys, key)
    /\ \E key \in Between(nodes[root].keys,
                          nodes[root].keys[Len(nodes[root].keys)], MaxKey + 1) :
          AddsInPlace(nodes[root].keys, key)

\* ---- add_child ----

\* The children, a sequence of nodes of arena ns, all hold keys, and the
\* keys of each are below the keys of the next.
RangesAscend(ns, children) ==
    /\ \A i \in 1..Len(children) : ns[children[i]].keys # <<>>
    /\ \A i \in 1..(Len(children) - 1) :
          ns[children[i]].keys[Len(ns[children[i]].keys)]
             < ns[children[i + 1]].keys[1]

\* The keys from keys[1] to the last are all below or all above the keys of
\* every one of the children.
RangeApart(ns, children, keys) ==
    \A i \in 1..Len(children) :
       \/ keys[Len(keys)] < ns[children[i]].keys[1]
       \/ ns[children[i]].keys[Len(ns[children[i]].keys)] < keys[1]

\* C33: add_child on a node whose children hold keys and are in ascending
\* order of their disjoint key ranges, with a new child whose key range is
\* disjoint from theirs, returns with the old children and the new one in
\* ascending order of their key ranges and with index_in_parent of every
\* child equal to its position.
C33_AddChildOrdered ==
    [][\A keys \in ChildKeys :
          (/\ RangesAscend(nodes, nodes[root].children)
           /\ RangeApart(nodes, nodes[root].children, keys)
           /\ AddChild(keys))
          => /\ fault' = NoFault
             /\ Len(nodes'[root].children) = Len(nodes[root].children) + 1
             /\ KeySet(nodes'[root].children)
                   = KeySet(nodes[root].children) \cup {Len(nodes) + 1}
             /\ nodes'[Len(nodes) + 1].keys = keys
             /\ RangesAscend(nodes', nodes'[root].children)
             /\ \A i \in 1..Len(nodes'[root].children) :
                   nodes'[nodes'[root].children[i]].index_in_parent = i - 1]_vars

\* C33 witness: a node that add_child gave three children, the last of them
\* between the two others and the second of them in front of the first,
\* which are in ascending order of their key ranges and carry their
\* positions.
C33_Witness ==
    /\ fault = NoFault
    /\ nodes[root].children = <<3, 4, 2>>
    /\ RangesAscend(nodes, nodes[root].children)
    /\ \A i \in 1..3 : nodes[nodes[root].children[i]].index_in_parent = i - 1

\* ---- try_clone_child ----

\* C34: try_clone_child(index) returns without a fatal error, none for an
\* index that is negative or not smaller than the number of children and
\* children[index] otherwise.
C34_TryCloneChild ==
    [][\A index \in ChildIndexes :
          TryCloneChild(index)
          => /\ fault' = NoFault
             /\ ret'.op = "try_clone_child"
             /\ ret'.val = IF index < 0 \/ index >= Len(nodes[root].children)
                           THEN NoNode
                           ELSE nodes[root].children[index + 1]]_vars

\* ---- The halves of a split ----

\* C35: split_node on a node that holds exactly order keys leaves at least
\* min_keys = ceil(order / 2) - 1 keys in the node and at least min_keys
\* keys in the right node it returns.
C35_SplitHalves ==
    [][(Len(nodes[root].keys) = order /\ SplitNode)
       => /\ Len(nodes'[root].keys) >= min_keys(order)
          /\ Len(ret'.val.right_keys) >= min_keys(order)
          /\ Len(nodes'[root].keys) + 1 + Len(ret'.val.right_keys) = order]_vars

\* C35 witness: split_node has returned on a node of an even order that
\* held order keys, and the right node has exactly min_keys keys.
C35_Witness ==
    /\ fault = NoFault
    /\ ret.op = "split_node"
    /\ order % 2 = 0
    /\ Len(nodes[root].keys) + 1 + Len(ret.val.right_keys) = order
    /\ Len(ret.val.right_keys) = min_keys(order)
    /\ Len(nodes[root].keys) > min_keys(order)

\* ---- The calls of the tree, one pass of the split loop at a time ----

\* tree.add(value) is in progress at the loop of split_if_full, which is
\* about to test node_ref.
Splitting(value, node_ref) ==
    [op |-> "add", val |-> [value |-> value, node_ref |-> node_ref]]

\* The start of tree.add(value) up to the call of split_if_full: the
\* descent of find_insert_node and, for a key that is not in the tree,
\* add_key on the node the descent ended at.
CallAdd(value) ==
    /\ fault = NoFault
    /\ ret.op = ""
    /\ Size < MaxSize
    /\ LET node_res == find_insert_node(nodes, root, value)
       IN /\ fault' = IF node_res.status = "Panic" THEN node_res.fault ELSE NoFault
          /\ nodes' = IF node_res.status = "NotFound"
                      THEN [nodes EXCEPT ![node_res.node].keys = add_key(@, value)]
                      ELSE nodes
          /\ ret' = IF node_res.status = "NotFound"
                    THEN Splitting(value, node_res.node)
                    ELSE ret
    /\ UNCHANGED <<root, order, present, deletes>>

\* What one pass through the body of the loop leaves.
SplitPassed(body) ==
    /\ fault' = IF body.fault = "" THEN NoFault ELSE body.fault
    /\ nodes' = IF body.fault = "" THEN body.nodes ELSE nodes
    /\ root' = IF body.fault = "" THEN body.root ELSE root
    /\ ret' = IF body.fault = "" THEN Splitting(ret.val.value, body.node_ref)
              ELSE ret
    /\ UNCHANGED <<order, present, deletes>>

\* One pass of the loop of split_if_full on a node that overflows.
SplitStep ==
    /\ fault = NoFault
    /\ ret.op = "add"
    /\ is_key_overflowing(nodes[ret.val.node_ref], order)
    /\ SplitPassed(split_body(nodes, root, order, ret.val.node_ref))

\* The loop of split_if_full ends at a node that does not overflow, and
\* tree.add returns Ok.
ReturnAdd ==
    /\ fault = NoFault
    /\ ret.op = "add"
    /\ ~is_key_overflowing(nodes[ret.val.node_ref], order)
    /\ nodes' = Compact(nodes, root)
    /\ root' = 1
    /\ present' = present \cup {ret.val.value}
    /\ ret' = NoRet
    /\ UNCHANGED <<order, fault, deletes>>

\* A call of tree.delete(value), which has no loop but the descent.
CallDelete(value) ==
    /\ ret.op = ""
    /\ Delete(value)

NextSteps ==
    \/ \E value \in Keys : CallAdd(value)
    \/ SplitStep
    \/ ReturnAdd
    \/ \E value \in Keys : CallDelete(value)

\* tree.add is in its split loop and nothing has stopped the process.
Running == ret.op = "add" /\ fault = NoFault

\* The program is one thread: a call that is running takes its next step.
\* While a call runs its next step is the only step there is, SplitStep at
\* a node that overflows and ReturnAdd at any other, and either changes
\* ret or fault.  ENABLED <<SplitStep \/ ReturnAdd>>_vars is therefore
\* Running and a step of a running call is a step of one of the two, which
\* makes WF_vars(SplitStep \/ ReturnAdd) the formula below.
RunsOn == ([]<>(~Running)) \/ ([]<><<Running>>_vars)

SpecSteps == Init /\ [][NextSteps]_vars /\ RunsOn

\* ---- Termination ----

\* The faults that end the process at once.
Panics == Faults \ {"Hang"}

\* A pass of the split loop that returns goes from the node it split to the
\* parent of that node, and after the pass that split the root the new
\* root does not overflow.
SplitMovesUp ==
    (SplitStep /\ fault' = NoFault)
    => /\ ret'.val.node_ref = nodes'[ret.val.node_ref].parent
       /\ ret.val.node_ref = root
          => /\ root' = ret'.val.node_ref
             /\ ~is_key_overflowing(nodes'[root'], order)

C37_OnlyRootIsRoot ==
    fault = NoFault =>
        /\ is_root(nodes[root])
        /\ nodes[root].index_in_parent = NoIndex
        /\ \A n \in NodeIds \ {root} :
              /\ ~is_root(nodes[n])
              /\ nodes[n].parent \in NodeIds
              /\ nodes[n].index_in_parent # NoIndex

\* C37 witness: a tree of three levels, whose root and whose nodes below
\* the root were made by splits, after a delete call that returned Ok: the
\* root alone has no parent and no index_in_parent.
C37_Witness ==
    /\ fault = NoFault
    /\ deletes = 1
    /\ Height(nodes, root) = 3
    /\ is_root(nodes[root])
    /\ nodes[root].index_in_parent = NoIndex
    /\ \A n \in NodeIds \ {root} :
          nodes[n].parent \in NodeIds /\ nodes[n].index_in_parent # NoIndex

====
